---- MODULE Spec2Model ----
(***************************************************************************)
(* Model of the N1 ingestion pipeline of app.py: order validation, country *)
(* classification, column normalisation, the transactional batch writer,   *)
(* batch deletion, the readers and the per-product metrics.                 *)
(*                                                                         *)
(* Text values are sequences of one-character strings, so that strip(),    *)
(* upper(), startswith() and the regular expressions of the source are     *)
(* computed character by character.  A missing cell (pandas NaN / SQL      *)
(* NULL) is the value NaN, which is no sequence of characters.             *)
(***************************************************************************)
EXTENDS Integers, Sequences, FiniteSets, TLC

VARIABLES
    v_token,    \* SpecVal: the token handed to is_valid_order_number
    v_pc,       \* SpecVal: "call" before is_valid_order_number ran, "done" after
    v_result,   \* SpecVal: the BOOLEAN the call returned
    p_df,       \* SpecProc: the raw table read from the spreadsheet
    p_pais_manual, \* SpecProc: the override country, NaN when 'Automatico'
    p_pc,       \* SpecProc: "call" before processar_dados_n1 ran, "done" after
    p_out,      \* SpecProc: what processar_dados_n1 returned or raised
    p_clean,    \* SpecProc: df_clean once the first and the last row were looked at
    uploads,    \* table uploads_n1, committed rows in insertion order
    dados,      \* table dados_n1, committed rows by upload_id
    seq_uploads, \* last value of the SERIAL sequence of uploads_n1.id
    s_pc,       \* the saving session: "idle", or "chunks" inside salvar_dados_n1
    s_file,     \* the file of its last script run (index in Files, 0: none)
    s_pais_manual, \* the country selected in that run, NaN when 'Automatico'
    s_i,        \* salvar_dados_n1: the loop variable i of the chunk loop
    s_result,   \* how that run ended: "none", "ValueError", "Exception" (before
                \* the save button), "ok" (salvar returned), "raised" (salvar raised)
    tx_upload,  \* the uploads_n1 row inserted by the open transaction
    tx_dados,   \* the dados_n1 rows inserted by the open transaction
    last,       \* the excluir_upload_n1 or reader call that has just returned:
                \* falha tells that its transaction failed, raised that the
                \* call ended in an exception, ok what excluir returned
    m_dados,    \* SpecMet: the rows carregar_dados_n1 returned to the analysis
    m_pc,       \* SpecMet: "call" before the metrics were computed, "done" after
    m_metricas, \* SpecMet: what calcular_metricas_n1 returned
    m_shown,    \* SpecMet: the rows of it the dashboard keeps and shows
    confirm_delete_n1, \* SpecDel: st.session_state.confirm_delete_n1, 0 for None
    select_delete_n1,  \* SpecDel: the place selected in the delete selectbox
    click,      \* SpecDel: the last click on the delete button: its number, the
                \* id selected, and whether excluir_upload_n1 ran and returned True
    clicked     \* SpecDel: the ids the delete button was clicked on so far

vars == <<v_token, v_pc, v_result, p_df, p_pais_manual, p_pc, p_out, p_clean,
          uploads, dados, seq_uploads, s_pc, s_file, s_pais_manual, s_i,
          s_result, tx_upload, tx_dados, last,
          m_dados, m_pc, m_metricas, m_shown,
          confirm_delete_n1, select_delete_n1, click, clicked>>
delVars == <<confirm_delete_n1, select_delete_n1, click, clicked>>
metVars == <<m_dados, m_pc, m_metricas, m_shown>>
valVars == <<v_token, v_pc, v_result>>
procVars == <<p_df, p_pais_manual, p_pc, p_out, p_clean>>
dbVars == <<uploads, dados, seq_uploads, s_pc, s_file, s_pais_manual, s_i,
            s_result, tx_upload, tx_dados, last>>

----------------------------------------------------------------------------
(* Characters and the str methods the source uses *)

UpperSeq == <<"A","B","C","D","E","F","G","H","I","J","K","L","M",
              "N","O","P","Q","R","S","T","U","V","W","X","Y","Z">>
LowerSeq == <<"a","b","c","d","e","f","g","h","i","j","k","l","m",
              "n","o","p","q","r","s","t","u","v","w","x","y","z">>
DigitSeq == <<"0","1","2","3","4","5","6","7","8","9">>

Range(f) == {f[i] : i \in DOMAIN f}

UpperChars == Range(UpperSeq)
LowerChars == Range(LowerSeq)
DigitChars == Range(DigitSeq)
LetterChars == UpperChars \cup LowerChars
Whitespace == {" "}
\* characters str.isalpha() and str.lower() know beyond the ASCII letters
AccentLower == {"ú"}
AccentUpper == {"Ú"}
AlphaChars == LetterChars \cup AccentLower \cup AccentUpper

\* pandas NaN / Python None / SQL NULL: the missing value
NaN == <<"NaN">>

SetMin(S) == CHOOSE x \in S : \A y \in S : x <= y
SetMax(S) == CHOOSE x \in S : \A y \in S : x >= y

\* str.strip(): drop leading and trailing whitespace
strip(s) ==
    LET keep == {i \in 1..Len(s) : s[i] \notin Whitespace}
    IN  IF keep = {} THEN <<>> ELSE SubSeq(s, SetMin(keep), SetMax(keep))

UpperChar(c) ==
    IF c \in LowerChars
    THEN UpperSeq[CHOOSE i \in 1..Len(LowerSeq) : LowerSeq[i] = c]
    ELSE IF c = "ú" THEN "Ú" ELSE c

LowerChar(c) ==
    IF c \in UpperChars
    THEN LowerSeq[CHOOSE i \in 1..Len(UpperSeq) : UpperSeq[i] = c]
    ELSE IF c = "Ú" THEN "ú" ELSE c

\* str.upper() and str.lower()
upper(s) == [i \in 1..Len(s) |-> UpperChar(s[i])]
lower(s) == [i \in 1..Len(s) |-> LowerChar(s[i])]

\* str.startswith(prefix)
startswith(s, prefix) ==
    Len(s) >= Len(prefix) /\ SubSeq(s, 1, Len(prefix)) = prefix

\* str.isalpha() and str.isdigit(): non-empty and every character of the class
isalpha(s) == Len(s) > 0 /\ \A i \in 1..Len(s) : s[i] \in AlphaChars
isdigit(s) == Len(s) > 0 /\ \A i \in 1..Len(s) : s[i] \in DigitChars

\* str(value): a missing value prints as 'nan'
str(value) == IF value = NaN THEN <<"n","a","n">> ELSE value

----------------------------------------------------------------------------
(* is_valid_order_number and its regular expressions (re.match anchors at  *)
(* the start of the string only)                                           *)

\* r'^#[A-Z]{2,3}\d+'
MatchHashPrefix(s) ==
    /\ Len(s) >= 4
    /\ s[1] = "#"
    /\ s[2] \in UpperChars
    /\ s[3] \in UpperChars
    /\ \/ s[4] \in DigitChars
       \/ Len(s) >= 5 /\ s[4] \in UpperChars /\ s[5] \in DigitChars

\* r'^LL\d+'
MatchLL(s) ==
    Len(s) >= 3 /\ s[1] = "L" /\ s[2] = "L" /\ s[3] \in DigitChars

\* r'^[A-Z]{2}\d+'
MatchTwoLetters(s) ==
    Len(s) >= 3 /\ s[1] \in UpperChars /\ s[2] \in UpperChars /\ s[3] \in DigitChars

\* r'^\d+[A-Z]+'
MatchDigitsLetters(s) ==
    \E k \in 1..Len(s) :
        /\ k < Len(s)
        /\ \A i \in 1..k : s[i] \in DigitChars
        /\ s[k + 1] \in UpperChars

\* r'^[A-Za-z0-9#\-_]+$'
MatchBasicAlnum(s) ==
    Len(s) > 0 /\ \A i \in 1..Len(s) : s[i] \in LetterChars \cup DigitChars \cup {"#", "-", "_"}

\* the validator without the letter-and-digit requirement
is_valid_order_number_NoMix(order_number) ==
    IF order_number = NaN \/ order_number = <<>> THEN FALSE
    ELSE LET order_str == strip(order_number)
         IN  IF Len(order_str) < 3 THEN FALSE
             ELSE IF \/ MatchHashPrefix(order_str)
                     \/ MatchLL(order_str)
                     \/ MatchTwoLetters(order_str)
                     \/ MatchDigitsLetters(order_str)
                  THEN TRUE
                  ELSE MatchBasicAlnum(order_str)

is_valid_order_number(order_number) ==
    IF order_number = NaN \/ order_number = <<>> THEN FALSE
    ELSE LET order_str == strip(order_number)
             has_letter == \E i \in 1..Len(order_str) : order_str[i] \in LetterChars
             has_number == \E i \in 1..Len(order_str) : order_str[i] \in DigitChars
         IN  IF Len(order_str) < 3 THEN FALSE
             ELSE IF ~(has_letter /\ has_number) THEN FALSE
             ELSE IF \/ MatchHashPrefix(order_str)
                     \/ MatchLL(order_str)
                     \/ MatchTwoLetters(order_str)
                     \/ MatchDigitsLetters(order_str)
                  THEN TRUE
                  ELSE IF MatchBasicAlnum(order_str) /\ Len(order_str) >= 3
                       THEN TRUE
                       ELSE FALSE

----------------------------------------------------------------------------
(* Countries, detectar_pais_por_pedido and the classifier identificar_pais *)

Italia  == <<"I","t","a","l","i","a">>
Espanha == <<"E","s","p","a","n","h","a">>
Polonia == <<"P","o","l","o","n","i","a">>
Romania == <<"R","o","m","a","n","i","a">>
Countries == {Italia, Espanha, Polonia, Romania}

\* Python truthiness of a text-or-None value
Truthy(value) == value # NaN /\ value # <<>>

detectar_pais_por_pedido(order_number) ==
    IF ~Truthy(order_number) THEN NaN
    ELSE LET order_str == upper(strip(str(order_number)))
         IN  IF startswith(order_str, <<"#","I","T","A">>) THEN Italia
             ELSE IF startswith(order_str, <<"L","L">>) THEN Espanha
             ELSE IF \/ startswith(order_str, <<"#","E","S","P">>)
                     \/ startswith(order_str, <<"#","E","S">>) THEN Espanha
             ELSE IF \/ startswith(order_str, <<"#","P","O","L">>)
                     \/ startswith(order_str, <<"#","P","L">>) THEN Polonia
             ELSE IF \/ startswith(order_str, <<"#","R","O","M">>)
                     \/ startswith(order_str, <<"#","R","O">>) THEN Romania
             ELSE NaN

spain_provinces ==
    { <<"A">>, <<"A","B">>, <<"A","L">>, <<"A","V">>, <<"B">>, <<"B","A">>,
      <<"B","I">>, <<"B","U">>, <<"C">>, <<"C","A">>, <<"C","C">>, <<"C","O">>,
      <<"C","R">>, <<"C","S">>, <<"C","U">>, <<"G","C">>, <<"G","I">>, <<"G","R">>,
      <<"G","U">>, <<"H">>, <<"H","U">>, <<"J">>, <<"L">>, <<"L","E">>,
      <<"L","O">>, <<"L","U">>, <<"M">>, <<"M","A">>, <<"M","U">>, <<"N","A">>,
      <<"O">>, <<"O","R">>, <<"P">>, <<"P","M">>, <<"P","O">>, <<"S">>,
      <<"S","A">>, <<"S","E">>, <<"S","G">>, <<"S","O">>, <<"S","S">>, <<"T">>,
      <<"T","E">>, <<"T","F">>, <<"T","O">>, <<"V">>, <<"V","A">>, <<"V","I">>,
      <<"Z">>, <<"Z","A">> }

\* row.get(key, default) on a record of the processed table
RowGet(row, key, default) == IF key \in DOMAIN row THEN row[key] ELSE default

\* the fallback of identificar_pais: province code, then postal code
PaisPorEndereco(row) ==
    LET province_code == strip(upper(str(RowGet(row, "province_code", <<>>))))
        zip_code == strip(str(RowGet(row, "zip_code", <<>>)))
    IN  IF province_code \in spain_provinces THEN Espanha
        ELSE IF /\ Len(province_code) = 2
                /\ isalpha(province_code)
                /\ province_code \notin spain_provinces THEN Italia
        ELSE IF zip_code # <<>> /\ isdigit(zip_code) /\ Len(zip_code) = 5
             THEN (IF province_code \in spain_provinces THEN Espanha ELSE Italia)
        ELSE IF zip_code # <<>> /\ isdigit(zip_code) /\ Len(zip_code) = 6
             THEN Romania
        ELSE Italia

\* the classifier with the order-number rule before the override
identificar_pais_PedidoPrimeiro(row, pais_manual) ==
    LET pais_pedido == detectar_pais_por_pedido(RowGet(row, "order_number", NaN))
    IN  IF Truthy(pais_pedido) THEN pais_pedido
        ELSE IF Truthy(pais_manual) THEN pais_manual
        ELSE PaisPorEndereco(row)

\* the classifier with the address rules before the order-number rule
identificar_pais_EnderecoPrimeiro(row, pais_manual) ==
    LET pais_pedido == detectar_pais_por_pedido(RowGet(row, "order_number", NaN))
        province_code == strip(upper(str(RowGet(row, "province_code", <<>>))))
    IN  IF Truthy(pais_manual) THEN pais_manual
        ELSE IF province_code \in spain_provinces THEN Espanha
        ELSE IF Truthy(pais_pedido) THEN pais_pedido
        ELSE PaisPorEndereco(row)

identificar_pais(row, pais_manual) ==
    LET pais_pedido == detectar_pais_por_pedido(RowGet(row, "order_number", NaN))
    IN  IF Truthy(pais_manual) THEN pais_manual
        ELSE IF Truthy(pais_pedido) THEN pais_pedido
        ELSE PaisPorEndereco(row)

----------------------------------------------------------------------------
(* Dates: to_datetime(format=...), strftime and the period of a batch *)

DigitVal(c) == (CHOOSE i \in 1..Len(DigitSeq) : DigitSeq[i] = c) - 1

RECURSIVE NumVal(_)
NumVal(s) == IF s = <<>> THEN 0
             ELSE 10 * NumVal(SubSeq(s, 1, Len(s) - 1)) + DigitVal(s[Len(s)])

IsLeap(y) == (y % 4 = 0 /\ y % 100 # 0) \/ y % 400 = 0

DaysIn(y, m) ==
    IF m = 2 THEN (IF IsLeap(y) THEN 29 ELSE 28)
    ELSE IF m \in {4, 6, 9, 11} THEN 30 ELSE 31

\* lexicographic order on tuples of integers of one length
RECURSIVE TupleLeq(_, _)
TupleLeq(a, b) ==
    IF a = <<>> THEN TRUE
    ELSE IF Head(a) # Head(b) THEN Head(a) < Head(b)
    ELSE TupleLeq(Tail(a), Tail(b))

\* a moment <<year, month, day, hour, minute>> a pandas Timestamp can hold
ValidMoment(t) ==
    /\ t[2] \in 1..12
    /\ t[3] \in 1..DaysIn(t[1], t[2])
    /\ t[4] \in 0..23
    /\ t[5] \in 0..59
    /\ TupleLeq(<<1677, 9, 21, 0, 13>>, t)
    /\ TupleLeq(t, <<2262, 4, 11, 23, 47>>)

\* the field lengths <<day, month, hour, minute>> under which text reads as
\* '%d/%m/%Y %H:%M': one or two digits each, four for the year
DateTimeSplits(text) ==
    { f \in (1..2) \X (1..2) \X (1..2) \X (1..2) :
        LET d == f[1]  m == f[2]  h == f[3]  n == f[4]
            seps == {d + 1, d + m + 2, d + m + 7, d + m + h + 8}
        IN  /\ Len(text) = d + m + h + n + 8
            /\ text[d + 1] = "/"
            /\ text[d + m + 2] = "/"
            /\ text[d + m + 7] = " "
            /\ text[d + m + h + 8] = ":"
            /\ \A i \in (1..Len(text)) \ seps : text[i] \in DigitChars }

\* pd.to_datetime(value, format='%d/%m/%Y %H:%M', errors='coerce'): the moment,
\* or NaN (NaT) when the value is missing or does not read as the format
to_datetime_dmy_hm(value) ==
    IF value = NaN \/ DateTimeSplits(value) = {} THEN NaN
    ELSE LET f == CHOOSE g \in DateTimeSplits(value) : TRUE
             d == f[1]  m == f[2]  h == f[3]  n == f[4]
             t == << NumVal(SubSeq(value, d + m + 3, d + m + 6)),
                     NumVal(SubSeq(value, d + 2, d + m + 1)),
                     NumVal(SubSeq(value, 1, d)),
                     NumVal(SubSeq(value, d + m + 8, d + m + h + 7)),
                     NumVal(SubSeq(value, d + m + h + 9, d + m + h + n + 8)) >>
         IN  IF ValidMoment(t) THEN t ELSE NaN

TwoDigits(k) == <<DigitSeq[(k \div 10) + 1], DigitSeq[(k % 10) + 1]>>
FourDigits(k) == TwoDigits(k \div 100) \o TwoDigits(k % 100)

\* x.strftime('%Y-%m-%d %H:%M:%S') if pd.notna(x) else None
strftime_ymd_hms(t) ==
    IF t = NaN THEN NaN
    ELSE FourDigits(t[1]) \o <<"-">> \o TwoDigits(t[2]) \o <<"-">> \o TwoDigits(t[3])
         \o <<" ">> \o TwoDigits(t[4]) \o <<":">> \o TwoDigits(t[5]) \o <<":","0","0">>

\* pd.to_datetime(text, errors='coerce') of a stored 'YYYY-mm-dd HH:MM:SS' text
to_datetime_iso(value) ==
    IF value = NaN THEN NaN
    ELSE IF /\ Len(value) = 19
            /\ value[5] = "-" /\ value[8] = "-" /\ value[11] = " "
            /\ value[14] = ":" /\ value[17] = ":"
            /\ \A i \in (1..19) \ {5, 8, 11, 14, 17} : value[i] \in DigitChars
         THEN LET t == << NumVal(SubSeq(value, 1, 4)), NumVal(SubSeq(value, 6, 7)),
                          NumVal(SubSeq(value, 9, 10)), NumVal(SubSeq(value, 12, 13)),
                          NumVal(SubSeq(value, 15, 16)) >>
              IN  IF ValidMoment(t) /\ NumVal(SubSeq(value, 18, 19)) \in 0..59
                  THEN t ELSE NaN
         ELSE NaN

\* the field lengths <<day, month>> under which text reads as '%d/%m/%Y'
DateSplits(text) ==
    { f \in (1..2) \X (1..2) :
        LET d == f[1]  m == f[2]
        IN  /\ Len(text) = d + m + 6
            /\ text[d + 1] = "/"
            /\ text[d + m + 2] = "/"
            /\ \A i \in (1..Len(text)) \ {d + 1, d + m + 2} : text[i] \in DigitChars }

\* pd.to_datetime(value, format='%d/%m/%Y', errors='coerce')
to_datetime_dmy(value) ==
    IF value = NaN \/ DateSplits(value) = {} THEN NaN
    ELSE LET f == CHOOSE g \in DateSplits(value) : TRUE
             d == f[1]  m == f[2]
             t == << NumVal(SubSeq(value, d + m + 3, d + m + 6)),
                     NumVal(SubSeq(value, d + 2, d + m + 1)),
                     NumVal(SubSeq(value, 1, d)), 0, 0 >>
         IN  IF ValidMoment(t) THEN t ELSE NaN

\* x.strftime('%Y-%m-%d') if pd.notna(x) else None
strftime_ymd(t) ==
    IF t = NaN THEN NaN
    ELSE FourDigits(t[1]) \o <<"-">> \o TwoDigits(t[2]) \o <<"-">> \o TwoDigits(t[3])

\* the decimal digits of a natural number
RECURSIVE Digits(_)
Digits(k) == IF k < 10 THEN <<DigitSeq[k + 1]>>
             ELSE Digits(k \div 10) \o <<DigitSeq[(k % 10) + 1]>>

\* pd.to_numeric(value, errors='coerce') on the cells of the model: a run of
\* digits, possibly between blanks, is that number; any other text, and a
\* missing value, is NaN
to_numeric(value) ==
    IF value = NaN THEN NaN
    ELSE IF isdigit(strip(value)) THEN Digits(NumVal(strip(value))) ELSE NaN

----------------------------------------------------------------------------
(* processar_dados_n1.  A raw table is [columns: sequence of source labels, *)
(* rows: sequence of rows, each a sequence of cells aligned with columns].  *)
(* A processed table is [columns: set of canonical names, rows: sequence of *)
(* records over those names].                                               *)

column_mapping ==
    ("Order #" :> "order_number") @@ ("Shipping #" :> "shipping_number") @@
    ("Completed date" :> "completed_date") @@ ("Customer" :> "customer") @@
    ("Payment" :> "payment") @@ ("Sku" :> "sku") @@
    ("Product name" :> "product_name") @@ ("Total revenues" :> "total_revenues") @@
    ("Quantity" :> "quantity") @@ ("Product cost" :> "product_cost") @@
    ("Order status" :> "order_status") @@ ("Last tracking" :> "last_tracking") @@
    ("Last tracking date" :> "last_tracking_date") @@ ("Platform" :> "platform") @@
    ("Zip" :> "zip_code") @@ ("Province code" :> "province_code")

numeric_columns == {"total_revenues", "quantity", "product_cost"}

string_columns == {"zip_code", "province_code", "customer", "payment", "sku",
                   "last_tracking", "platform"}

text_columns == {"order_number", "shipping_number", "customer", "payment", "sku",
                 "product_name", "last_tracking", "platform", "zip_code",
                 "province_code", "pais"}

\* the labels a duplicated header row shows in its first cell
header_labels ==
    { <<"o","r","d","e","r"," ","#">>, <<"o","r","d","e","r">>,
      <<"n","ú","m","e","r","o"," ","p","e","d","i","d","o">> }

\* ' '.join(parts)
RECURSIVE JoinSpace(_)
JoinSpace(parts) ==
    IF parts = <<>> THEN <<>>
    ELSE IF Len(parts) = 1 THEN parts[1]
    ELSE parts[1] \o <<" ">> \o JoinSpace(Tail(parts))

\* sub in s
Contains(s, sub) ==
    \E i \in 0..(Len(s) - Len(sub)) : SubSeq(s, i + 1, i + Len(sub)) = sub

\* "Remover primeira linha se for header duplicado"
DropHeaderRow(df) ==
    IF /\ Len(df.rows) > 0
       /\ ~startswith(str(df.rows[1][1]), <<"#">>)
       /\ ~startswith(str(df.rows[1][1]), <<"L","L">>)
    THEN LET primeira_linha == strip(str(df.rows[1][1]))
         IN  IF lower(primeira_linha) \in header_labels \/ primeira_linha = <<>>
             THEN [df EXCEPT !.rows = Tail(@)]
             ELSE df
    ELSE df

\* the last-row check without the test on the number of rows
DropTotalRow_SemGuarda(df) ==
    IF Len(df.rows) > 0
    THEN LET last_row == df.rows[Len(df.rows)]
             last_row_str == lower(JoinSpace(SelectSeq(last_row, LAMBDA val : val # NaN)))
         IN  IF Contains(last_row_str, <<"t","o","t","a","l">>)
             THEN [df EXCEPT !.rows = SubSeq(@, 1, Len(@) - 1)]
             ELSE df
    ELSE df

\* "Remover ultima linha se contiver Total"
DropTotalRow(df) ==
    IF Len(df.rows) > 1
    THEN LET last_row == df.rows[Len(df.rows)]
             last_row_str == lower(JoinSpace(SelectSeq(last_row, LAMBDA val : val # NaN)))
         IN  IF Contains(last_row_str, <<"t","o","t","a","l">>)
             THEN [df EXCEPT !.rows = SubSeq(@, 1, Len(@) - 1)]
             ELSE df
    ELSE df

\* df_clean[list(available_columns.keys())].rename(columns=available_columns)
MapColumns(df) ==
    LET labels == {df.columns[i] : i \in 1..Len(df.columns)} \cap DOMAIN column_mapping
        pos(label) == CHOOSE i \in 1..Len(df.columns) : df.columns[i] = label
        label_of(name) == CHOOSE l \in labels : column_mapping[l] = name
        names == {column_mapping[l] : l \in labels}
    IN  [ columns |-> names,
          rows |-> [r \in 1..Len(df.rows) |->
                      [name \in names |-> df.rows[r][pos(label_of(name))]]] ]

\* "Limpar dados invalidos": only when the table has an order_number column
FilterOrders(dfp) ==
    IF "order_number" \in dfp.columns
    THEN [dfp EXCEPT !.rows =
            SelectSeq(@, LAMBDA row :
                /\ row["order_number"] # NaN
                /\ strip(str(row["order_number"])) # <<>>
                /\ is_valid_order_number(row["order_number"]))]
    ELSE dfp

\* df[col].astype(str).replace('nan', '')
AsStringColumn(value) == IF str(value) = <<"n","a","n">> THEN <<>> ELSE str(value)

\* df[col].fillna('')
fillna(value) == IF value = NaN THEN <<>> ELSE value

\* the value of one column of one row after the date, numeric, string and
\* text steps, in the order of the source
NormalizeCell(name, value) ==
    LET dated == IF name = "completed_date"
                 THEN strftime_ymd_hms(to_datetime_dmy_hm(value))
                 ELSE IF name = "last_tracking_date"
                 THEN strftime_ymd(to_datetime_dmy(value))
                 ELSE value
        numbered == IF name \in numeric_columns THEN to_numeric(dated) ELSE dated
        stringed == IF name \in string_columns THEN AsStringColumn(numbered) ELSE numbered
    IN  IF name \in text_columns THEN fillna(stringed) ELSE stringed

NormalizeRow(row) == [name \in DOMAIN row |-> NormalizeCell(name, row[name])]

\* df_processed['pais'] = df_processed.apply(identificar_pais, axis=1)
WithPais(row, pais_manual) == row @@ ("pais" :> identificar_pais(row, pais_manual))

\* the rows of the processed table, each normalised and classified
RECURSIVE ApplyRows(_, _)
ApplyRows(rows, pais_manual) ==
    IF rows = <<>> THEN <<>>
    ELSE IF Len(rows) = 1 THEN <<WithPais(NormalizeRow(rows[1]), pais_manual)>>
    ELSE LET half == Len(rows) \div 2
         IN  ApplyRows(SubSeq(rows, 1, half), pais_manual)
             \o ApplyRows(SubSeq(rows, half + 1, Len(rows)), pais_manual)

processar_dados_n1(df, pais_manual) ==
    LET df_clean == DropTotalRow(DropHeaderRow(df))
        df_valid == FilterOrders(MapColumns(df_clean))
    IN  IF Len(df_valid.rows) = 0
        THEN [raised |-> "ValueError", columns |-> {}, rows |-> <<>>]
        ELSE [raised |-> "none",
              columns |-> df_valid.columns \cup {"pais"},
              rows |-> ApplyRows(df_valid.rows, pais_manual)]

----------------------------------------------------------------------------
(* The store.  uploads and dados are the committed tables uploads_n1 and   *)
(* dados_n1; they are what every other connection sees.  uploads is in      *)
(* insertion order; dados holds, for every upload_id some row carries, the  *)
(* rows carrying it, in insertion order.  tx_upload and tx_dados are the    *)
(* rows the open transaction of salvar_dados_n1 has inserted and not yet    *)
(* committed.  A dados row is the processed record plus upload_id; a column *)
(* the record does not carry is NULL in the table.                          *)

ChunkThreshold == 500
SmallChunk == 100
LargeChunk == 500

\* the date part <<year, month, day>> of a moment
DateOf(t) == <<t[1], t[2], t[3]>>

MomentMin(S) == CHOOSE t \in S : \A u \in S : TupleLeq(t, u)
MomentMax(S) == CHOOSE t \in S : \A u \in S : TupleLeq(u, t)

\* "Calcular periodo": <<periodo_inicio, periodo_fim>>, NaN when the table has
\* no completed_date column or no valid date
Periodo(dfp) ==
    IF "completed_date" \in dfp.columns
    THEN LET datas_validas == {dfp.rows[r]["completed_date"] : r \in 1..Len(dfp.rows)} \ {NaN}
             dates_series == {to_datetime_iso(d) : d \in datas_validas} \ {NaN}
         IN  IF dates_series # {}
             THEN <<DateOf(MomentMin(dates_series)), DateOf(MomentMax(dates_series))>>
             ELSE <<NaN, NaN>>
    ELSE <<NaN, NaN>>

\* one chunk size for every table
chunk_size_Fixo(n) == LargeChunk

\* chunk_size = 100 if len(df_copy) > 500 else 500
chunk_size(n) == IF n > ChunkThreshold THEN SmallChunk ELSE LargeChunk

\* df_copy['upload_id'] = upload_id
Tagged(row, upload_id) == row @@ ("upload_id" :> upload_id)

\* df_copy.iloc[i:i + chunk_size], i counted from 0
Chunk(rows, i, size, upload_id) ==
    LET hi == IF i + size < Len(rows) THEN i + size ELSE Len(rows)
    IN  [k \in 1..(hi - i) |-> Tagged(rows[i + k], upload_id)]

\* INSERT INTO uploads_n1: the row joins the table
InsertUploads(table, rows) == table \o rows

\* INSERT INTO dados_n1 (to_sql, if_exists='append'): each row joins the rows
\* of its own upload_id
InsertDados(table, rows) ==
    LET ids == {rows[j]["upload_id"] : j \in 1..Len(rows)}
    IN  [k \in DOMAIN table \cup ids |->
            (IF k \in DOMAIN table THEN table[k] ELSE <<>>)
            \o SelectSeq(rows, LAMBDA d : d["upload_id"] = k)]

\* a rollback that undoes the metadata row and keeps the chunks inserted
RollbackKeepsChunks(table, pending) == InsertDados(table, pending)

\* a rollback that undoes the chunks and keeps the metadata row
RollbackKeepsUpload(table, pending) == InsertUploads(table, pending)

\* what engine.begin() leaves of the rows a transaction inserted when the
\* with block exits on an exception: nothing
RollbackUploads(table, pending) == table
RollbackDados(table, pending) == table

\* DELETE FROM uploads_n1 WHERE id = :upload_id
DeleteUpload(table, upload_id) == SelectSeq(table, LAMBDA u : u.id # upload_id)

\* a delete that leaves the rows of the batch behind
CascadeNone(table, upload_id) == table

\* ON DELETE CASCADE on dados_n1.upload_id
Cascade(table, upload_id) == [k \in DOMAIN table \ {upload_id} |-> table[k]]

\* the column value of a stored row as SELECT * returns it
Column(row, name) == IF name \in DOMAIN row THEN row[name] ELSE NaN

Todos == <<"T","o","d","o","s">>

\* carregar_uploads_n1: the committed batches, newest first
carregar_uploads_n1(up) == [k \in 1..Len(up) |-> up[Len(up) + 1 - k]]

\* carregar_dados_n1 without the country condition
carregar_dados_n1_SemFiltro(upload_id, pais_filtro, da) ==
    IF upload_id \in DOMAIN da THEN da[upload_id] ELSE <<>>

\* carregar_dados_n1: the committed rows of one batch, filtered by country
carregar_dados_n1(upload_id, pais_filtro, da) ==
    IF upload_id \notin DOMAIN da THEN <<>>
    ELSE IF pais_filtro = Todos THEN da[upload_id]
    ELSE SelectSeq(da[upload_id], LAMBDA d : Column(d, "pais") = pais_filtro)

\* the empty dados_n1
NoDados == [k \in {} |-> <<>>]

----------------------------------------------------------------------------
(* SpecVal: is_valid_order_number applied to every token over a small      *)
(* alphabet, and to the tokens the specification names                     *)

MaxTokenLen == 4

TokenAlphabet == {"#", "L", "A", "b", "1", "!", " ", "-"}

RECURSIVE SeqsUpTo(_, _)
SeqsUpTo(S, n) ==
    IF n = 0 THEN {<<>>}
    ELSE LET shorter == SeqsUpTo(S, n - 1)
         IN  shorter \cup {Append(s, c) : s \in shorter, c \in S}

NamedTokens ==
    { <<"A","B">>,
      <<"1","2","3","4","5">>,
      <<"L","L","1","5","2","7","8">>,
      <<"#","I","T","A","1","2","3">>,
      <<"#","I","T","A","4","2">>,
      <<"L","L","9","9","0","0","1">>,
      <<"#","i","t","1">>,
      <<"1","2","A","!">>,
      <<"1","2","_","a">> }

Tokens == SeqsUpTo(TokenAlphabet, MaxTokenLen) \cup NamedTokens \cup {NaN}

ValIdle == v_token = <<>> /\ v_pc = "idle" /\ v_result = FALSE

----------------------------------------------------------------------------
(* Inputs of SpecProc: raw tables for processar_dados_n1 *)

MaxRows == 3

OrderCells ==
    { NaN, <<>>, <<" ">>,
      <<"1","2","3","4","5">>,
      <<"A","B">>,
      <<"#","I","T","A","4","2">>,
      <<"L","L","9","9","0","0","1">>,
      <<"l","l","9","9">>,
      <<" ","#","i","t","a","1">>,
      <<"#","E","S","P","1">>, <<"#","E","S","7">>,
      <<"#","P","O","L","1">>, <<"#","P","L","7">>,
      <<"#","R","O","M","1">>, <<"#","R","O","7">>,
      <<"#","I","T","1">>,
      <<"X","X","1","2","3">>,
      <<"1","2","A","!">>,
      <<"o","r","d","e","r"," ","#">>,
      <<"T","o","t","a","l","1">> }

ProvinceCells ==
    { NaN, <<>>, <<"M">>, <<"m">>, <<" ","m"," ">>, <<"A","B">>, <<"R","M">>,
      <<"r","m">>, <<"R","1">>, <<"M","A","D">>, <<"n","a","n">> }

ZipCells ==
    { NaN, <<>>, <<"1","2","3","4","5">>, <<"1","2","3","4","5","6">>,
      <<"1","2","3","4">>, <<"1","2","a","4","5">>, <<" ","1","2","3","4","5">> }

Overrides == {NaN} \cup Countries

\* one-row exports carrying the three columns the classifier reads
ClassifierTables ==
    { [columns |-> <<"Order #", "Province code", "Zip">>, rows |-> <<<<o, p, z>>>>] :
        o \in OrderCells, p \in ProvinceCells, z \in ZipCells }

Delivered == <<"D","e","l","i","v","e","r","e","d">>
Returned  == <<"R","e","t","u","r","n","e","d">>
Return    == <<"R","e","t","u","r","n">>
Shipped   == <<"S","h","i","p","p","e","d">>

Widget == <<"W">>
Gadget == <<"G">>
TotalText == <<"G","r","a","n","d"," ","T","o","t","a","l">>
OrderIta == <<"#","I","T","A","4","2">>
OrderLL == <<"L","L","9","9","0","0","1">>
OrderNumeric == <<"1","2","3","4","5">>
HeaderText == <<"O","r","d","e","r"," ","#">>
GoodDate == <<"0","1","/","0","2","/","2","0","2","5"," ","1","0",":","3","0">>
ShortDate == <<"9","/","3","/","2","0","2","5"," ","7",":","0","5">>
BadDayDate == <<"3","1","/","0","2","/","2","0","2","5"," ","1","0",":","3","0">>
IsoDate == <<"2","0","2","5","-","0","2","-","0","1">>

\* every table of at most MaxRows rows over the given columns and rows
TablesOver(columns, rowset) ==
    { [columns |-> columns, rows |-> r] : r \in SeqsUpTo(rowset, MaxRows) }

Cross2(A, B) == { <<a, b>> : a \in A, b \in B }
Cross4(A, B, C, D) == { <<a, b, c, d>> : a \in A, b \in B, c \in C, d \in D }

\* exports with a duplicated header row, a total row, a subset of the mapped
\* columns, an unmapped column, dates and numbers
GeneralTables ==
    TablesOver(<<"Order #", "Product name">>,
               Cross2({NaN, OrderIta, HeaderText, OrderNumeric}, {NaN, TotalText}))
    \cup TablesOver(<<"Product name", "Order status">>,
               Cross2({NaN, <<>>, Widget}, {NaN, Delivered}))
    \cup TablesOver(<<"Product name", "Order #">>,
               Cross2({<<>>, Widget, <<"o","r","d","e","r">>}, {NaN, OrderIta}))
    \cup TablesOver(<<"Order #", "Completed date">>,
               Cross2({OrderLL, OrderNumeric}, {NaN, GoodDate, ShortDate, BadDayDate, IsoDate}))
    \cup TablesOver(<<"Order #", "Quantity", "Shipping #", "Customer">>,
               Cross4({OrderLL}, {NaN, <<"0","7">>, <<"x">>}, {NaN, <<"S","1">>},
                      {NaN, <<"n","a","n">>}))
    \cup TablesOver(<<"Note", "Order #">>,
               Cross2({NaN, TotalText}, {OrderIta, OrderNumeric}))
    \cup TablesOver(<<"Order #", "Order status", "Product name", "Zip">>,
               Cross4({OrderIta}, {NaN, Delivered}, {NaN, Widget}, {NaN}))

NoTable == [columns |-> <<>>, rows |-> <<>>]
NoResult == [raised |-> "none", columns |-> {}, rows |-> <<>>]

ProcIdle ==
    /\ p_df = NoTable
    /\ p_pais_manual = NaN
    /\ p_pc = "idle"
    /\ p_out = NoResult
    /\ p_clean = NoTable

----------------------------------------------------------------------------
(* Inputs of Spec: the files, and the store before anything ran *)

MaxUploads == 2

\* how many batches of more than ChunkThreshold rows the store holds at a time
MaxLargeStored == 1

LargeRows == ChunkThreshold + 1

\* the spreadsheets the operator can upload
Files ==
    << \* every order-number cell numeric-only or empty
       [columns |-> <<"Order #", "Zip">>,
        rows |-> << <<OrderNumeric, <<"1","2","3","4","5">> >>, <<NaN, NaN>>,
                    <<<<" ">>, NaN>> >>],
       \* two valid orders of two countries, one numeric-only order
       [columns |-> <<"Order #", "Completed date", "Province code">>,
        rows |-> << <<OrderIta, GoodDate, <<"R","M">> >>,
                    <<OrderNumeric, NaN, NaN>>,
                    <<OrderLL, ShortDate, <<"M">> >> >>],
       \* a partial export without the order-number column
       [columns |-> <<"Product name">>, rows |-> << <<Widget>> >>],
       \* more rows than one large chunk holds
       [columns |-> <<"Order #">>,
        rows |-> [k \in 1..LargeRows |->
                    << (IF k % 2 = 0 THEN <<"L","L">> ELSE <<"#","R","O">>) \o Digits(k) >>]] >>

Names == { <<"A","b","r","i","l">> }

\* the file and country selections of the session: <<file, pais_manual>>
SessionInputs ==
    << <<1, NaN>>, <<1, Polonia>>, <<2, NaN>>, <<3, NaN>>, <<4, NaN>> >>

\* processar_dados_n1 of every selection, by its place in SessionInputs; the
\* script recomputes it on each run, and it depends on nothing else
ProcessedInputs ==
    [k \in 1..Len(SessionInputs) |->
        processar_dados_n1(Files[SessionInputs[k][1]], SessionInputs[k][2])]

Processed(file, pais_manual) ==
    ProcessedInputs[CHOOSE k \in 1..Len(SessionInputs) :
                        SessionInputs[k] = <<file, pais_manual>>]

\* the preview of dashboard_n1 (lines 494-531) raises KeyError without an
\* order_number column and IndexError when no order_status value is present
PreviewRaises(dfp) ==
    \/ "order_number" \notin dfp.columns
    \/ /\ "order_status" \in dfp.columns
       /\ \A r \in 1..Len(dfp.rows) : dfp.rows[r]["order_status"] = NaN

\* the script run of dashboard_n1 up to the save button, for the uploaded file
RunUpload(file, pais_manual) ==
    LET out == Processed(file, pais_manual)
    IN  IF out.raised = "ValueError" THEN "ValueError"
        ELSE IF PreviewRaises(out) THEN "Exception"
        ELSE "ready"

NoUpload == [id |-> 0, nome_arquivo |-> <<>>, periodo_inicio |-> NaN,
             periodo_fim |-> NaN, total_registros |-> 0]

\* no call on another connection has just returned
NoCall == [op |-> "none", id |-> 0, filtro |-> NaN, ok |-> FALSE, n |-> 0,
           total |-> 0, falha |-> FALSE, raised |-> FALSE]

DbIdle ==
    /\ uploads = <<>>
    /\ dados = NoDados
    /\ seq_uploads = 0
    /\ s_pc = "idle"
    /\ s_file = 0
    /\ s_pais_manual = NaN
    /\ s_i = 0
    /\ s_result = "none"
    /\ tx_upload = NoUpload
    /\ tx_dados = <<>>
    /\ last = NoCall

----------------------------------------------------------------------------
(* calcular_metricas_n1 and the filter the dashboard applies to its result *)

\* the characters in code-point order, for the sorted keys of groupby
CodeSeq ==
    <<" ", "!", "#", "-">> \o DigitSeq \o UpperSeq \o <<"_">> \o LowerSeq

Ord(c) == CHOOSE i \in 1..Len(CodeSeq) : CodeSeq[i] = c

\* a < b as Python orders two strings
RECURSIVE StrLess(_, _)
StrLess(a, b) ==
    IF b = <<>> THEN FALSE
    ELSE IF a = <<>> THEN TRUE
    ELSE IF Head(a) = Head(b) THEN StrLess(Tail(a), Tail(b))
    ELSE Ord(Head(a)) < Ord(Head(b))

RECURSIVE SortKeys(_)
SortKeys(S) ==
    IF S = {} THEN <<>>
    ELSE LET least == CHOOSE a \in S : \A b \in S \ {a} : StrLess(a, b)
         IN  <<least>> \o SortKeys(S \ {least})

\* the keys of df.groupby('product_name'): null keys are dropped, the groups
\* come sorted
GroupKeys(df) ==
    SortKeys({Column(df[i], "product_name") : i \in 1..Len(df)} \ {NaN})

\* .agg({col: 'count'}): the rows of the group whose col is not null
count(df, key, col) ==
    Cardinality({i \in 1..Len(df) :
                    /\ Column(df[i], "product_name") = key
                    /\ Column(df[i], col) # NaN})

\* groupby(['product_name', 'order_status']).size().unstack(fill_value=0),
\* read at one product and one status
status_counts(df, key, status) ==
    Cardinality({i \in 1..Len(df) :
                    /\ Column(df[i], "product_name") = key
                    /\ Column(df[i], "order_status") = status})

entregues(df, key) == status_counts(df, key, Delivered)

\* devolucoes that counts 'Returned' alone
devolucoes_SoReturned(df, key) == status_counts(df, key, Returned)

devolucoes(df, key) ==
    status_counts(df, key, Return) + status_counts(df, key, Returned)

Inf == <<"inf">>

\* (num / den * 100).round(2), in hundredths; a float division by zero gives
\* nan or inf and raises nothing
Efetividade(num, den) ==
    IF den = 0 THEN (IF num = 0 THEN NaN ELSE Inf)
    ELSE LET scaled == num * 10000
             q == scaled \div den
             r == scaled % den
         IN  IF 2 * r < den THEN q
             ELSE IF 2 * r > den THEN q + 1
             ELSE IF q % 2 = 0 THEN q ELSE q + 1

\* one row of the metrics table ('Devolucoes' is the column 'Devoluções')
MetricRow(df, key) ==
    ("Product" :> key)
    @@ ("Pedidos Totais" :> count(df, key, "order_number"))
    @@ ("Pedidos Enviados" :> count(df, key, "shipping_number"))
    @@ ("Entregues" :> entregues(df, key))
    @@ ("Devolucoes" :> devolucoes(df, key))
    @@ ("Shipping" :> count(df, key, "shipping_number"))
    @@ ("Efetividade" :> Efetividade(entregues(df, key),
                                     count(df, key, "order_number")))

calcular_metricas_n1(df) ==
    IF Len(df) = 0 THEN <<>>
    ELSE [k \in 1..Len(GroupKeys(df)) |-> MetricRow(df, GroupKeys(df)[k])]

\* the filter without the test on the product name
ProdutosValidos_SemNome(metricas) ==
    SelectSeq(metricas, LAMBDA m : m["Pedidos Totais"] > 0)

\* metricas[metricas['Product'] != ''], then [metricas['Pedidos Totais'] > 0]
ProdutosValidos(metricas) ==
    SelectSeq(SelectSeq(metricas, LAMBDA m : m["Product"] # <<>>),
              LAMBDA m : m["Pedidos Totais"] > 0)

----------------------------------------------------------------------------
(* Inputs of SpecMet: row sets as carregar_dados_n1 returns them *)

MaxRecords == 3

Track == <<"T","1">>

StoredRow(product_name, order_status, shipping_number) ==
    [order_number |-> OrderIta, shipping_number |-> shipping_number,
     product_name |-> product_name, order_status |-> order_status]

\* the stored rows the analysis can meet: every row has passed the order
\* filter, so its order_number is set; a product name is a text, the empty
\* text, or null when the export had no such column
RowKinds ==
    {StoredRow(p, st, Track) : p \in {Widget, Gadget, <<>>},
                               st \in {Delivered, Returned, Return, Shipped}}
    \cup {StoredRow(NaN, Delivered, Track), StoredRow(Widget, NaN, Track),
          StoredRow(Widget, Shipped, <<>>)}

\* 10 records of one product: 6 Delivered, 2 Returned, 2 Shipped
ExampleRows ==
    [k \in 1..10 |->
        StoredRow(Widget, IF k <= 6 THEN Delivered
                          ELSE IF k <= 8 THEN Returned ELSE Shipped, Track)]

RowSets == SeqsUpTo(RowKinds, MaxRecords) \cup {ExampleRows}

\* no click on the delete button yet
NoClick == [n |-> 0, id |-> 0, called |-> FALSE, ok |-> FALSE]

\* a session that has not touched the delete section
DelIdle ==
    /\ confirm_delete_n1 = 0
    /\ select_delete_n1 = 1
    /\ click = NoClick
    /\ clicked = {}

MetIdle ==
    /\ m_dados = <<>>
    /\ m_pc = "idle"
    /\ m_metricas = <<>>
    /\ m_shown = <<>>

----------------------------------------------------------------------------
(* SpecVal *)

InitVal ==
    /\ v_token \in Tokens
    /\ v_pc = "call"
    /\ v_result = FALSE
    /\ ProcIdle
    /\ DbIdle
    /\ MetIdle
    /\ DelIdle

\* one call is_valid_order_number(v_token)
Validate ==
    /\ v_pc = "call"
    /\ v_pc' = "done"
    /\ v_result' = is_valid_order_number(v_token)
    /\ UNCHANGED v_token
    /\ UNCHANGED <<procVars, dbVars, metVars, delVars>>

NextVal == Validate

SpecVal == InitVal /\ [][NextVal]_vars

----------------------------------------------------------------------------
(* SpecProc: processar_dados_n1 applied to raw tables *)

InitProc ==
    /\ \/ p_df \in ClassifierTables /\ p_pais_manual \in Overrides
       \/ p_df \in GeneralTables /\ p_pais_manual \in {NaN, Polonia}
    /\ p_pc = "call"
    /\ p_out = NoResult
    /\ p_clean = NoTable
    /\ ValIdle
    /\ DbIdle
    /\ MetIdle
    /\ DelIdle

\* one call processar_dados_n1(p_df, p_pais_manual)
Processar ==
    /\ p_pc = "call"
    /\ p_pc' = "done"
    /\ p_clean' = DropTotalRow(DropHeaderRow(p_df))
    /\ p_out' = processar_dados_n1(p_df, p_pais_manual)
    /\ UNCHANGED <<p_df, p_pais_manual>>
    /\ UNCHANGED <<valVars, dbVars, metVars, delVars>>

NextProc == Processar

SpecProc == InitProc /\ [][NextProc]_vars


----------------------------------------------------------------------------
(* Spec: the dashboard session that uploads and saves, batch deletion, and *)
(* a reader, each on its own connection                                     *)

Init ==
    /\ DbIdle
    /\ ValIdle
    /\ ProcIdle
    /\ MetIdle
    /\ DelIdle

LargeStored ==
    Cardinality({k \in 1..Len(uploads) : uploads[k].total_registros > ChunkThreshold})

\* the table the save button hands to salvar_dados_n1
SessionDf == Processed(s_file, s_pais_manual)

\* a script run that ends before the save button: processar_dados_n1 raised
\* ValueError, or the preview raised
UploadRejected(file, pais_manual) ==
    /\ s_pc = "idle"
    /\ RunUpload(file, pais_manual) # "ready"
    /\ s_file' = file
    /\ s_pais_manual' = pais_manual
    /\ s_result' = RunUpload(file, pais_manual)
    /\ s_i' = 0
    /\ last' = NoCall
    /\ UNCHANGED <<uploads, dados, seq_uploads, s_pc, tx_upload, tx_dados>>
    /\ UNCHANGED <<valVars, procVars, metVars, delVars>>

\* the save button: the script run reaches salvar_dados_n1, which opens the
\* transaction and runs the metadata INSERT ... RETURNING id
SalvarBegin(file, pais_manual, nome_personalizado) ==
    /\ s_pc = "idle"
    /\ RunUpload(file, pais_manual) = "ready"
    /\ strip(nome_personalizado) # <<>>
    /\ seq_uploads < MaxUploads
    /\ Len(Processed(file, pais_manual).rows) > ChunkThreshold =>
           LargeStored < MaxLargeStored
    /\ s_file' = file
    /\ s_pais_manual' = pais_manual
    /\ seq_uploads' = seq_uploads + 1
    /\ LET df == Processed(file, pais_manual)
       IN  tx_upload' = [id |-> seq_uploads + 1,
                         nome_arquivo |-> strip(nome_personalizado),
                         periodo_inicio |-> Periodo(df)[1],
                         periodo_fim |-> Periodo(df)[2],
                         total_registros |-> Len(df.rows)]
    /\ tx_dados' = <<>>
    /\ s_i' = 0
    /\ s_pc' = "chunks"
    /\ s_result' = "none"
    /\ last' = NoCall
    /\ UNCHANGED <<uploads, dados>>
    /\ UNCHANGED <<valVars, procVars, metVars, delVars>>

\* one turn of the chunk loop: chunk.to_sql('dados_n1', conn, if_exists='append')
SalvarChunk ==
    /\ s_pc = "chunks"
    /\ s_i < Len(SessionDf.rows)
    /\ tx_dados' = tx_dados \o Chunk(SessionDf.rows, s_i,
                                     chunk_size(Len(SessionDf.rows)), tx_upload.id)
    /\ s_i' = s_i + chunk_size(Len(SessionDf.rows))
    /\ last' = NoCall
    /\ UNCHANGED <<uploads, dados, seq_uploads, s_pc, s_file, s_pais_manual>>
    /\ UNCHANGED <<s_result, tx_upload>>
    /\ UNCHANGED <<valVars, procVars, metVars, delVars>>

\* the loop is over: return upload_id, and the with block commits
SalvarCommit ==
    /\ s_pc = "chunks"
    /\ s_i >= Len(SessionDf.rows)
    /\ uploads' = InsertUploads(uploads, <<tx_upload>>)
    /\ dados' = InsertDados(dados, tx_dados)
    /\ tx_upload' = NoUpload
    /\ tx_dados' = <<>>
    /\ s_pc' = "idle"
    /\ s_result' = "ok"
    /\ last' = NoCall
    /\ UNCHANGED <<seq_uploads, s_file, s_pais_manual, s_i>>
    /\ UNCHANGED <<valVars, procVars, metVars, delVars>>

\* a failed save whose exception is swallowed: salvar_dados_n1 returns
SalvarFail_Engolida ==
    /\ s_pc = "chunks"
    /\ uploads' = RollbackUploads(uploads, <<tx_upload>>)
    /\ dados' = RollbackDados(dados, tx_dados)
    /\ tx_upload' = NoUpload
    /\ tx_dados' = <<>>
    /\ s_pc' = "idle"
    /\ s_result' = "ok"
    /\ last' = NoCall
    /\ UNCHANGED <<seq_uploads, s_file, s_pais_manual, s_i>>
    /\ UNCHANGED <<valVars, procVars, metVars, delVars>>

\* a statement of the open transaction (the next chunk insert, or the commit)
\* fails: the with block rolls back and the exception reaches the dashboard
SalvarFail ==
    /\ s_pc = "chunks"
    /\ uploads' = RollbackUploads(uploads, <<tx_upload>>)
    /\ dados' = RollbackDados(dados, tx_dados)
    /\ tx_upload' = NoUpload
    /\ tx_dados' = <<>>
    /\ s_pc' = "idle"
    /\ s_result' = "raised"
    /\ last' = NoCall
    /\ UNCHANGED <<seq_uploads, s_file, s_pais_manual, s_i>>
    /\ UNCHANGED <<valVars, procVars, metVars, delVars>>

\* excluir_upload_n1(upload_id) returning True: the DELETE and its cascade
\* commit together
ExcluirOk(upload_id) ==
    /\ uploads' = DeleteUpload(uploads, upload_id)
    /\ dados' = Cascade(dados, upload_id)
    /\ last' = [op |-> "excluir", id |-> upload_id, filtro |-> NaN, ok |-> TRUE,
                n |-> Len(uploads) - Len(DeleteUpload(uploads, upload_id)), total |-> 0,
                falha |-> FALSE, raised |-> FALSE]
    /\ UNCHANGED <<seq_uploads, s_pc, s_file, s_pais_manual, s_i, s_result>>
    /\ UNCHANGED <<tx_upload, tx_dados>>
    /\ UNCHANGED <<valVars, procVars, metVars, delVars>>

\* excluir_upload_n1(upload_id) returning False: the DELETE raised, the
\* transaction rolled back and the exception was caught and shown
ExcluirFalha(upload_id) ==
    /\ uploads' = RollbackUploads(uploads, <<>>)
    /\ dados' = RollbackDados(dados, <<>>)
    /\ last' = [op |-> "excluir", id |-> upload_id, filtro |-> NaN, ok |-> FALSE,
                n |-> 0, total |-> 0, falha |-> TRUE, raised |-> FALSE]
    /\ UNCHANGED <<seq_uploads, s_pc, s_file, s_pais_manual, s_i, s_result>>
    /\ UNCHANGED <<tx_upload, tx_dados>>
    /\ UNCHANGED <<valVars, procVars, metVars, delVars>>

\* a reader's script run: carregar_uploads_n1, then carregar_dados_n1 for one
\* of the batches listed; it keeps the total_registros listed and the number
\* of rows loaded, ok telling that every row loaded carries the batch id
ReaderRun(k, pais_filtro) ==
    LET listed == carregar_uploads_n1(uploads)
    IN  /\ k \in 1..Len(listed)
        /\ LET loaded == carregar_dados_n1(listed[k].id, pais_filtro, dados)
           IN  last' = [op |-> IF pais_filtro = Todos THEN "carregar" ELSE "carregar_pais",
                        id |-> listed[k].id,
                        filtro |-> pais_filtro,
                        ok |-> SelectSeq(loaded, LAMBDA d : d["upload_id"] # listed[k].id) = <<>>,
                        n |-> Len(loaded),
                        total |-> listed[k].total_registros,
                        falha |-> FALSE, raised |-> FALSE]
        /\ UNCHANGED <<uploads, dados, seq_uploads, s_pc, s_file, s_pais_manual>>
        /\ UNCHANGED <<s_i, s_result, tx_upload, tx_dados>>
        /\ UNCHANGED <<valVars, procVars, metVars, delVars>>

Next ==
    \/ \E in \in Range(SessionInputs) : UploadRejected(in[1], in[2])
    \/ \E in \in Range(SessionInputs), nome \in Names : SalvarBegin(in[1], in[2], nome)
    \/ SalvarChunk
    \/ SalvarCommit
    \/ SalvarFail
    \/ \E upload_id \in 1..MaxUploads : ExcluirOk(upload_id)
    \/ \E upload_id \in 1..MaxUploads : ExcluirFalha(upload_id)
    \/ \E k \in 1..MaxUploads, pais_filtro \in {Todos, Espanha, Polonia} : ReaderRun(k, pais_filtro)

Spec == Init /\ [][Next]_vars

----------------------------------------------------------------------------
(* SpecMet: the analysis of the main area on the rows of the selected batch *)

InitMet ==
    /\ m_dados \in RowSets
    /\ m_pc = "call"
    /\ m_metricas = <<>>
    /\ m_shown = <<>>
    /\ ValIdle
    /\ ProcIdle
    /\ DbIdle
    /\ DelIdle

\* dashboard_n1 from the loaded rows on: nothing is computed for an empty
\* row set; otherwise calcular_metricas_n1, then the two filters
Analisar ==
    /\ m_pc = "call"
    /\ m_pc' = "done"
    /\ m_metricas' = calcular_metricas_n1(m_dados)
    /\ m_shown' = ProdutosValidos(calcular_metricas_n1(m_dados))
    /\ UNCHANGED m_dados
    /\ UNCHANGED <<valVars, procVars, dbVars, delVars>>

NextMet == Analisar

SpecMet == InitMet /\ [][NextMet]_vars

----------------------------------------------------------------------------
(* SpecDel: the delete section of the sidebar of dashboard_n1, in a session *)
(* that also saves small files, next to deletes made by other sessions      *)

MaxClicks == 4

\* uploads.iloc[upload_para_excluir]['id']: the id at the selected place of
\* the list this script run loaded (places counted from 1 here); a place the
\* list no longer has falls back to the first
SelectedId ==
    LET listed == carregar_uploads_n1(uploads)
    IN  IF select_delete_n1 \in 1..Len(listed) THEN listed[select_delete_n1].id
        ELSE listed[1].id

\* the operator picks a batch in the selectbox
Selecionar(k) ==
    /\ s_pc = "idle"
    /\ k \in 1..Len(uploads)
    /\ k # select_delete_n1
    /\ select_delete_n1' = k
    /\ UNCHANGED <<confirm_delete_n1, click, clicked>>
    /\ UNCHANGED <<valVars, procVars, dbVars, metVars>>

\* a click on the delete button while another id, or none, is pending: the
\* id is recorded and the operator is asked to click again
ClicarPedeConfirmacao ==
    /\ s_pc = "idle"
    /\ click.n < MaxClicks
    /\ Len(uploads) > 0
    /\ confirm_delete_n1 # SelectedId
    /\ confirm_delete_n1' = SelectedId
    /\ click' = [n |-> click.n + 1, id |-> SelectedId, called |-> FALSE, ok |-> FALSE]
    /\ clicked' = clicked \cup {SelectedId}
    /\ UNCHANGED select_delete_n1
    /\ UNCHANGED <<valVars, procVars, dbVars, metVars>>

\* a click that calls excluir_upload_n1 whatever id is pending
ClicarExcluiOk_SemConfirmar ==
    /\ s_pc = "idle"
    /\ click.n < MaxClicks
    /\ Len(uploads) > 0
    /\ uploads' = DeleteUpload(uploads, SelectedId)
    /\ dados' = Cascade(dados, SelectedId)
    /\ confirm_delete_n1' = 0
    /\ click' = [n |-> click.n + 1, id |-> SelectedId, called |-> TRUE, ok |-> TRUE]
    /\ clicked' = clicked \cup {SelectedId}
    /\ last' = NoCall
    /\ UNCHANGED select_delete_n1
    /\ UNCHANGED <<seq_uploads, s_pc, s_file, s_pais_manual, s_i, s_result>>
    /\ UNCHANGED <<tx_upload, tx_dados>>
    /\ UNCHANGED <<valVars, procVars, metVars>>

\* a click while the id selected is the pending one: excluir_upload_n1 runs
\* and returns True, the pending id is cleared
ClicarExcluiOk ==
    /\ s_pc = "idle"
    /\ click.n < MaxClicks
    /\ Len(uploads) > 0
    /\ confirm_delete_n1 = SelectedId
    /\ uploads' = DeleteUpload(uploads, SelectedId)
    /\ dados' = Cascade(dados, SelectedId)
    /\ confirm_delete_n1' = 0
    /\ click' = [n |-> click.n + 1, id |-> SelectedId, called |-> TRUE, ok |-> TRUE]
    /\ clicked' = clicked \cup {SelectedId}
    /\ last' = NoCall
    /\ UNCHANGED select_delete_n1
    /\ UNCHANGED <<seq_uploads, s_pc, s_file, s_pais_manual, s_i, s_result>>
    /\ UNCHANGED <<tx_upload, tx_dados>>
    /\ UNCHANGED <<valVars, procVars, metVars>>

\* the same click when excluir_upload_n1 returns False: nothing is deleted
\* and the id stays pending
ClicarExcluiFalha ==
    /\ s_pc = "idle"
    /\ click.n < MaxClicks
    /\ Len(uploads) > 0
    /\ confirm_delete_n1 = SelectedId
    /\ uploads' = RollbackUploads(uploads, <<>>)
    /\ dados' = RollbackDados(dados, <<>>)
    /\ click' = [n |-> click.n + 1, id |-> SelectedId, called |-> TRUE, ok |-> FALSE]
    /\ clicked' = clicked \cup {SelectedId}
    /\ last' = NoCall
    /\ UNCHANGED <<confirm_delete_n1, select_delete_n1>>
    /\ UNCHANGED <<seq_uploads, s_pc, s_file, s_pais_manual, s_i, s_result>>
    /\ UNCHANGED <<tx_upload, tx_dados>>
    /\ UNCHANGED <<valVars, procVars, metVars>>

NextDel ==
    \/ \E nome \in Names : SalvarBegin(2, NaN, nome)
    \/ SalvarChunk
    \/ SalvarCommit
    \/ \E upload_id \in 1..MaxUploads : ExcluirOk(upload_id)
    \/ \E k \in 1..MaxUploads : Selecionar(k)
    \/ ClicarPedeConfirmacao
    \/ ClicarExcluiOk
    \/ ClicarExcluiFalha

SpecDel == Init /\ [][NextDel]_vars

----------------------------------------------------------------------------
(* C7: the contract of is_valid_order_number *)

\* s is, from its first to its last character, n1..n2 characters of `first`
\* followed by one or more characters of `rest`
IsRun(s, first, lo, hi, rest) ==
    \E n \in lo..hi :
        /\ n < Len(s)
        /\ \A i \in 1..n : s[i] \in first
        /\ \A i \in (n + 1)..Len(s) : s[i] \in rest

\* the four known shapes, the whole token being of the shape, with `letters`
\* the characters that count as a letter
WholeShape(s, letters) ==
    \/ Len(s) >= 1 /\ s[1] = "#" /\ IsRun(Tail(s), letters, 2, 3, DigitChars)
    \/ Len(s) >= 2 /\ s[1] = "L" /\ s[2] = "L"
         /\ Len(s) >= 3 /\ \A i \in 3..Len(s) : s[i] \in DigitChars
    \/ IsRun(s, letters, 2, 2, DigitChars)
    \/ IsRun(s, DigitChars, 1, Len(s), letters)

OnlyBasicChars(s) ==
    \A i \in 1..Len(s) : s[i] \in LetterChars \cup DigitChars \cup {"#", "-", "_"}

C7_MustReject(t) ==
    \/ t = NaN
    \/ strip(t) = <<>>
    \/ Len(strip(t)) < 3
    \/ ~ \E i \in 1..Len(strip(t)) : strip(t)[i] \in LetterChars
    \/ ~ \E i \in 1..Len(strip(t)) : strip(t)[i] \in DigitChars

C7_Examples ==
    /\ v_token = <<"A","B">> => ~v_result
    /\ v_token = <<"1","2","3","4","5">> => ~v_result
    /\ v_token = <<"L","L","1","5","2","7","8">> => v_result
    /\ v_token = <<"#","I","T","A","1","2","3">> => v_result

\* C7: a token is rejected when it is missing, empty after trimming,
\* shorter than 3 characters, without a letter or without a digit; any other
\* token is accepted exactly when it is of one of the known shapes or consists
\* only of letters, digits, '#', '-' and '_'.
C7_AsStated ==
    v_pc = "done" =>
        /\ v_result = ( /\ ~C7_MustReject(v_token)
                        /\ \/ WholeShape(strip(v_token), LetterChars)
                           \/ OnlyBasicChars(strip(v_token)) )
        /\ C7_Examples

----------------------------------------------------------------------------
(* C4, C5, C6: the records processar_dados_n1 returns *)

Returned_Rows == IF p_pc = "done" /\ p_out.raised = "none" THEN p_out.rows ELSE <<>>

\* C4: with an override country B supplied, every record is classified as B,
\* whatever its order number, province code and postal code say.
C4_OverrideWins ==
    p_pais_manual \in Countries =>
        \A r \in 1..Len(Returned_Rows) : Returned_Rows[r]["pais"] = p_pais_manual

\* a record whose order number carries the prefix of a country other than the
\* override, and whose address signals yet another answer
C4_Witness ==
    /\ p_pais_manual \in Countries
    /\ \E r \in 1..Len(Returned_Rows) :
          LET row == Returned_Rows[r]
          IN  /\ "order_number" \in DOMAIN row
              /\ detectar_pais_por_pedido(row["order_number"]) \in Countries \ {p_pais_manual}
              /\ PaisPorEndereco(row) # p_pais_manual

\* the prefix table of C5, in its order
C5_Prefixes ==
    << << <<"#","I","T","A">>, Italia >>,
       << <<"L","L">>, Espanha >>, << <<"#","E","S","P">>, Espanha >>,
       << <<"#","E","S">>, Espanha >>,
       << <<"#","P","O","L">>, Polonia >>, << <<"#","P","L">>, Polonia >>,
       << <<"#","R","O","M">>, Romania >>, << <<"#","R","O">>, Romania >> >>

\* the signals of a record, trimmed and case-folded; a field the export does
\* not carry gives no signal
C5_Order(row) ==
    IF "order_number" \in DOMAIN row /\ row["order_number"] # NaN
    THEN upper(strip(row["order_number"])) ELSE <<>>
C5_Province(row) ==
    IF "province_code" \in DOMAIN row THEN strip(upper(row["province_code"])) ELSE <<>>
C5_Zip(row) ==
    IF "zip_code" \in DOMAIN row THEN strip(row["zip_code"]) ELSE <<>>

C5_PrefixHits(row) ==
    {i \in 1..Len(C5_Prefixes) : startswith(C5_Order(row), C5_Prefixes[i][1])}

C5_AllDigits(z) == \A i \in 1..Len(z) : z[i] \in DigitChars
C5_AllLetters(p) == \A i \in 1..Len(p) : p[i] \in AlphaChars

C5_Expected(row) ==
    IF C5_PrefixHits(row) # {} THEN C5_Prefixes[SetMin(C5_PrefixHits(row))][2]
    ELSE IF C5_Province(row) \in spain_provinces THEN Espanha
    ELSE IF Len(C5_Province(row)) = 2 /\ C5_AllLetters(C5_Province(row)) THEN Italia
    ELSE IF C5_AllDigits(C5_Zip(row)) /\ Len(C5_Zip(row)) = 5 THEN Italia
    ELSE IF C5_AllDigits(C5_Zip(row)) /\ Len(C5_Zip(row)) = 6 THEN Romania
    ELSE Italia

\* C5: with no override, every record gets the country of the first matching
\* rule: order-number prefix, then Spanish province code, then two-letter
\* province code (Italia), then 5-digit (Italia) or 6-digit (Romania) postal
\* code, else Italia.  Prefix, province and postal code are read trimmed, the
\* first two without regard to case.
C5_RuleOrder ==
    p_pais_manual = NaN =>
        \A r \in 1..Len(Returned_Rows) :
            LET row == Returned_Rows[r]
            IN  /\ row["pais"] = C5_Expected(row)
                /\ C5_PrefixHits(row) # {} =>
                       \E i \in C5_PrefixHits(row) : row["pais"] = C5_Prefixes[i][2]
                /\ C5_PrefixHits(row) = {} /\ C5_Province(row) \in spain_provinces =>
                       row["pais"] = Espanha
                /\ C5_Order(row) = <<"#","I","T","A","4","2">> => row["pais"] = Italia
                /\ C5_Order(row) = <<"L","L","9","9","0","0","1">> => row["pais"] = Espanha

\* a prefix match of one country on a record whose province code and postal
\* code point at two other countries
C5_Witness ==
    /\ p_pais_manual = NaN
    /\ \E r \in 1..Len(Returned_Rows) :
          LET row == Returned_Rows[r]
          IN  /\ C5_PrefixHits(row) # {}
              /\ row["pais"] = Polonia
              /\ C5_Province(row) \in spain_provinces
              /\ Len(C5_Zip(row)) = 6 /\ C5_AllDigits(C5_Zip(row))

\* C6: every record returned has a non-empty order_number that
\* is_valid_order_number accepts, and a non-null pais, for every input table,
\* partial exports included, and every override.
C6_RequiredFields ==
    \A r \in 1..Len(Returned_Rows) :
        LET row == Returned_Rows[r]
        IN  /\ "order_number" \in DOMAIN row
            /\ row["order_number"] # NaN
            /\ row["order_number"] # <<>>
            /\ is_valid_order_number(row["order_number"])
            /\ "pais" \in DOMAIN row
            /\ row["pais"] # NaN

----------------------------------------------------------------------------
(* C1, C2, C3, C8: the store under saves, failed saves, deletions, readers *)

\* the ids of the batches carregar_uploads_n1 lists
ListedIds(up) == {carregar_uploads_n1(up)[k].id : k \in 1..Len(up)}

\* the step is one of salvar_dados_n1: the save button, a chunk, the exit
SalvarStep ==
    \/ s_pc = "idle" /\ s_pc' = "chunks"
    \/ s_pc = "chunks" /\ (s_i' # s_i \/ s_pc' = "idle")

\* C1: when a chunk insert of salvar_dados_n1 fails, whatever the chunk, the
\* transaction is rolled back: the store is what it was before the call (no
\* step of the failed call changed it), carregar_uploads_n1 does not list the
\* batch and no dados_n1 row carries its id.
C1_AtomicSave ==
    [][ /\ (SalvarStep /\ s_result' # "ok") =>
              (uploads' = uploads /\ dados' = dados)
        /\ s_result' = "raised" =>
              /\ seq_uploads' \notin ListedIds(uploads')
              /\ \A f \in {Todos} \cup Countries :
                     carregar_dados_n1(seq_uploads', f, dados') = <<>>
              /\ \A id \in DOMAIN dados' : \A j \in 1..Len(dados'[id]) :
                     dados'[id][j]["upload_id"] # seq_uploads' ]_vars

\* a save of several chunks failed after its first and before its last chunk,
\* next to a batch saved earlier
C1_Witness ==
    /\ s_result = "raised"
    /\ s_i >= chunk_size(Len(SessionDf.rows))
    /\ s_i + chunk_size(Len(SessionDf.rows)) < Len(SessionDf.rows)
    /\ Len(uploads) > 0

\* C2: whatever a save in flight or a failed save has done, every batch a
\* reader can list is complete: its total_registros is the number of
\* dados_n1 rows that carry its id, and that is what a reader that listed the
\* batch and loaded its rows got.
C2_ReadersSeeWholeBatches ==
    /\ \A k \in 1..Len(uploads) :
          LET u == carregar_uploads_n1(uploads)[k]
              loaded == carregar_dados_n1(u.id, Todos, dados)
          IN  /\ Len(loaded) = u.total_registros
              /\ \A j \in 1..Len(loaded) : loaded[j]["upload_id"] = u.id
    /\ last.op = "carregar" => (last.ok /\ last.n = last.total)

\* a reader has listed and loaded a batch while another batch has some of its
\* chunks inserted and some not
C2_Witness ==
    /\ s_pc = "chunks"
    /\ s_i > 0
    /\ s_i < Len(SessionDf.rows)
    /\ Len(tx_dados) = s_i
    /\ last.op = "carregar"
    /\ last.n > 0

\* C3: no dados_n1 row outlives its batch: the upload_id of every row is the
\* id of an uploads_n1 row, and once excluir_upload_n1(X) has returned True
\* carregar_dados_n1(X, filter) is empty for every country filter.
C3_NoOrphans ==
    /\ \A id \in DOMAIN dados : \A j \in 1..Len(dados[id]) :
          \E k \in 1..Len(uploads) : uploads[k].id = dados[id][j]["upload_id"]
    /\ (last.op = "excluir" /\ last.ok) =>
          \A f \in {Todos} \cup Countries :
              carregar_dados_n1(last.id, f, dados) = <<>>

\* a batch that had rows was deleted while another batch stays stored
C3_Witness ==
    /\ last.op = "excluir"
    /\ last.ok
    /\ last.n = 1
    /\ Len(uploads) > 0
    /\ \E id \in DOMAIN dados : Len(dados[id]) > 0

\* every cell of the order-number column is missing, blank or digits only
OrderCellsBad(df) ==
    /\ \E c \in 1..Len(df.columns) : df.columns[c] = "Order #"
    /\ \A c \in 1..Len(df.columns) : df.columns[c] = "Order #" =>
          \A r \in 1..Len(df.rows) :
              \/ df.rows[r][c] = NaN
              \/ strip(df.rows[r][c]) = <<>>
              \/ isdigit(strip(df.rows[r][c]))

\* C8: a script run on a file whose every order-number cell is empty or
\* numeric-only ends in the ValueError of processar_dados_n1 before
\* salvar_dados_n1 is called: no transaction is opened, no id is drawn, and
\* uploads_n1 and dados_n1 are left as they were.
C8_EmptyAfterFilter ==
    [][ (last' = NoCall /\ s_file' # 0 /\ OrderCellsBad(Files[s_file'])) =>
            /\ processar_dados_n1(Files[s_file'], s_pais_manual').raised = "ValueError"
            /\ s_result' = "ValueError"
            /\ s_pc' = "idle"
            /\ tx_upload' = NoUpload /\ tx_dados' = <<>>
            /\ seq_uploads' = seq_uploads
            /\ uploads' = uploads /\ dados' = dados ]_vars

\* such a file was uploaded with batches already stored
C8_Witness ==
    /\ s_file # 0
    /\ OrderCellsBad(Files[s_file])
    /\ s_result = "ValueError"
    /\ Len(uploads) > 0

----------------------------------------------------------------------------
(* C9, C10: the per-product metrics and what the dashboard shows of them *)

\* the records of one product among the rows analysed
C9_Records(key) == {i \in 1..Len(m_dados) : m_dados[i]["product_name"] = key}

C9_WithStatus(key, status) ==
    {i \in C9_Records(key) : m_dados[i]["order_status"] = status}

\* the product names of the rows analysed
C9_Products == {m_dados[i]["product_name"] : i \in 1..Len(m_dados)} \ {NaN}

\* C9: calcular_metricas_n1 reports, for every product of the row set, the
\* number of its records as total, those with status 'Delivered' as
\* delivered, those with 'Return' plus those with 'Returned' as returned, and
\* delivered / total x 100 to the nearest hundredth as effectiveness; 10
\* records with 6 Delivered, 2 Returned, 2 Shipped give 10, 6, 2 and 60.00.
C9_Metrics ==
    m_pc = "done" =>
        /\ \A key \in C9_Products :
              \E k \in 1..Len(m_metricas) :
                  LET m == m_metricas[k]
                      total == Cardinality(C9_Records(key))
                      delivered == Cardinality(C9_WithStatus(key, Delivered))
                  IN  /\ m["Product"] = key
                      /\ m["Pedidos Totais"] = total
                      /\ m["Entregues"] = delivered
                      /\ m["Devolucoes"] = Cardinality(C9_WithStatus(key, Return))
                                           + Cardinality(C9_WithStatus(key, Returned))
                      /\ m["Entregues"] + m["Devolucoes"]
                           + Cardinality(C9_WithStatus(key, Shipped))
                           + Cardinality(C9_WithStatus(key, NaN)) = total
                      /\ 2 * (m["Efetividade"] * total - delivered * 10000) <= total
                      /\ 2 * (delivered * 10000 - m["Efetividade"] * total) <= total
        /\ m_dados = ExampleRows =>
              /\ Len(m_metricas) = 1
              /\ m_metricas[1]["Pedidos Totais"] = 10
              /\ m_metricas[1]["Entregues"] = 6
              /\ m_metricas[1]["Devolucoes"] = 2
              /\ m_metricas[1]["Efetividade"] = 6000

\* a product with records of each kind: delivered, 'Return', 'Returned'
C9_Witness ==
    /\ m_pc = "done"
    /\ \E k \in 1..Len(m_metricas) :
          /\ m_metricas[k]["Pedidos Totais"] = 3
          /\ m_metricas[k]["Entregues"] = 1
          /\ m_metricas[k]["Devolucoes"] = 2
          /\ C9_WithStatus(m_metricas[k]["Product"], Return) # {}
          /\ C9_WithStatus(m_metricas[k]["Product"], Returned) # {}

\* C10: what the dashboard keeps of the metrics has exactly one row for every
\* non-empty product name that has a record, and no other row: no row of the
\* empty product name, none with total 0, and in every row the effectiveness
\* is a number between 0 and 100.
C10_ShownProducts ==
    m_pc = "done" =>
        /\ \A key \in C9_Products \ {<<>>} :
              Cardinality({k \in 1..Len(m_shown) : m_shown[k]["Product"] = key}) = 1
        /\ \A k \in 1..Len(m_shown) :
              /\ m_shown[k]["Product"] \in C9_Products \ {<<>>}
              /\ m_shown[k]["Pedidos Totais"] > 0
              /\ m_shown[k]["Efetividade"] \in 0..10000

\* the metrics have a row for the empty product name next to rows of named
\* products, and the row is not shown
C10_Witness ==
    /\ m_pc = "done"
    /\ \E k \in 1..Len(m_metricas) : m_metricas[k]["Product"] = <<>>
    /\ Len(m_shown) >= 1
    /\ Len(m_shown) < Len(m_metricas)

----------------------------------------------------------------------------
(* C11: nothing found is no error *)

\* C11: excluir_upload_n1 on an id no batch has returns True and leaves
\* uploads_n1 and dados_n1 as they were; carregar_dados_n1 for a country no
\* row of the batch has returns no row, and calcular_metricas_n1 of no row
\* returns an empty table.
C11_NotFoundIsNoOp ==
    [][ /\ (last'.op = "excluir" /\ last'.id \notin ListedIds(uploads)) =>
              /\ uploads' = uploads
              /\ dados' = dados
              /\ last'.ok => last'.n = 0
        /\ (last'.op = "carregar_pais"
              /\ \A j \in 1..Len(carregar_dados_n1(last'.id, Todos, dados')) :
                    carregar_dados_n1(last'.id, Todos, dados')[j]["pais"] # last'.filtro) =>
              /\ last'.n = 0
              /\ carregar_dados_n1(last'.id, last'.filtro, dados') = <<>>
              /\ calcular_metricas_n1(
                     carregar_dados_n1(last'.id, last'.filtro, dados')) = <<>> ]_vars

\* a delete of an id no batch has returned True while batches are stored
C11_Witness ==
    /\ last.id \notin ListedIds(uploads)
    /\ last.op = "excluir"
    /\ last.ok
    /\ last.n = 0
    /\ Len(uploads) > 0

----------------------------------------------------------------------------
(* C12: the shipped count *)

\* C12: for every product, 'Pedidos Enviados' is the number of its records
\* whose shipping_number is not empty; a record stored with the empty string
\* for a missing shipping number is not counted.
C12_ShippedCount ==
    m_pc = "done" =>
        \A k \in 1..Len(m_metricas) :
            m_metricas[k]["Pedidos Enviados"] =
                Cardinality({i \in C9_Records(m_metricas[k]["Product"]) :
                                /\ m_dados[i]["shipping_number"] # NaN
                                /\ m_dados[i]["shipping_number"] # <<>>})

----------------------------------------------------------------------------
(* C13: textual fields are never null *)

C13_TextFields ==
    {"order_number", "shipping_number", "customer", "payment", "sku",
     "product_name", "order_status", "platform", "last_tracking", "zip_code",
     "province_code"}

\* C13: in every record processar_dados_n1 returns, every textual field the
\* record carries is a text, the empty one when the cell was missing; only
\* numeric and date fields are null.
C13_TextNeverNull ==
    \A r \in 1..Len(Returned_Rows) :
        \A name \in C13_TextFields \cap DOMAIN Returned_Rows[r] :
            Returned_Rows[r][name] # NaN

----------------------------------------------------------------------------
(* C14: database failures reach the caller *)

\* the step ends a salvar_dados_n1 whose transaction did not commit
SalvarFailed ==
    SalvarStep /\ s_pc' = "idle" /\ tx_upload.id \notin ListedIds(uploads')

\* C14: a salvar_dados_n1 or excluir_upload_n1 whose transaction failed ends
\* in an exception at its caller, never in a normal result, and the
\* transaction is rolled back: the tables are as they were.
C14_FailuresPropagate ==
    [][ /\ SalvarFailed =>
              (s_result' = "raised" /\ uploads' = uploads /\ dados' = dados)
        /\ last'.falha =>
              (last'.raised /\ uploads' = uploads /\ dados' = dados) ]_vars

\* C14 as the code has it: a failed salvar_dados_n1 ends in an exception at
\* its caller; a failed excluir_upload_n1 ends in no exception and returns
\* False, never True; in both cases the transaction is rolled back and the
\* tables are as they were.
C14_FailuresReported ==
    [][ /\ SalvarFailed =>
              (s_result' = "raised" /\ uploads' = uploads /\ dados' = dados)
        /\ last'.falha =>
              /\ last'.op = "excluir"
              /\ ~last'.raised
              /\ ~last'.ok
              /\ uploads' = uploads /\ dados' = dados ]_vars

\* a save failed after its first chunk and then a delete of a stored batch
\* failed
C14_Witness ==
    /\ s_result = "raised"
    /\ s_i > 0
    /\ last.falha
    /\ last.id \in ListedIds(uploads)

----------------------------------------------------------------------------
(* C15: the last-row check of the Row Sanitizer *)

\* the non-empty cells of the row, lower-cased, contain 'total'
C15_HasTotal(row) ==
    \E c \in 1..Len(row) :
        row[c] # NaN /\ Contains(lower(row[c]), <<"t","o","t","a","l">>)

\* no row other than the first and the last is dropped, and nothing is raised
C15_OnlyEnds ==
    \E a \in {0, 1}, b \in {0, 1} :
        /\ a + b <= Len(p_df.rows)
        /\ p_clean.rows = SubSeq(p_df.rows, 1 + a, Len(p_df.rows) - b)
        /\ p_clean.columns = p_df.columns

\* C15: of the table left by the first-row check the last row is dropped
\* whenever its non-empty cells contain 'total', whatever the number of rows,
\* a single row included; no other row is dropped and nothing is raised.
C15_TotalRowAnyLength ==
    p_pc = "done" =>
        LET rows == DropHeaderRow(p_df).rows
        IN  /\ C15_OnlyEnds
            /\ p_clean.rows =
                 IF Len(rows) > 0 /\ C15_HasTotal(rows[Len(rows)])
                 THEN SubSeq(rows, 1, Len(rows) - 1) ELSE rows

\* C15 as the code has it: the last row is dropped whenever more than one row
\* is left and its non-empty cells contain 'total'; a single remaining row is
\* kept; no other row is dropped and nothing is raised.
C15_TotalRowOfSeveral ==
    p_pc = "done" =>
        LET rows == DropHeaderRow(p_df).rows
        IN  /\ C15_OnlyEnds
            /\ p_clean.rows =
                 IF Len(rows) > 1 /\ C15_HasTotal(rows[Len(rows)])
                 THEN SubSeq(rows, 1, Len(rows) - 1) ELSE rows

\* a total row was dropped from under a header row that was dropped too
C15_Witness ==
    /\ p_pc = "done"
    /\ Len(p_df.rows) >= 3
    /\ Len(p_clean.rows) = Len(p_df.rows) - 2
    /\ C15_HasTotal(p_df.rows[Len(p_df.rows)])

----------------------------------------------------------------------------
(* C16: the chunk loop of salvar_dados_n1 *)

\* the first k records of the table being saved, in its order, each with the
\* id the metadata insert returned
C16_FirstTagged(k, id) ==
    [j \in 1..k |->
        [c \in DOMAIN SessionDf.rows[j] \cup {"upload_id"} |->
            IF c = "upload_id" THEN id ELSE SessionDf.rows[j][c]]]

\* C16: a turn of the chunk loop inserts the next records of the table, in
\* order, each with the id of the metadata row, at most 100 of them when the
\* table has more than 500 records and at most 500 otherwise; when
\* salvar_dados_n1 returns, the rows of the batch are the records of the
\* table, each once and in order, and their number is its total_registros.
C16_ChunkLoop ==
    [][ LET n == Len(SessionDf.rows)
            size == IF n > 500 THEN 100 ELSE 500
        IN  /\ (s_pc = "chunks" /\ s_i' # s_i) =>
                  /\ Len(tx_dados') - Len(tx_dados) \in 1..size
                  /\ Len(tx_dados') = n \/ Len(tx_dados') - Len(tx_dados) = size
                  /\ tx_dados' = C16_FirstTagged(Len(tx_dados'), tx_upload.id)
            /\ (s_pc = "chunks" /\ s_result' = "ok") =>
                  /\ tx_upload.id = seq_uploads
                  /\ dados'[tx_upload.id] = C16_FirstTagged(n, tx_upload.id)
                  /\ \E k \in 1..Len(uploads') :
                        /\ uploads'[k].id = tx_upload.id
                        /\ uploads'[k].total_registros = Len(dados'[tx_upload.id])
                        /\ uploads'[k].total_registros = n ]_vars

\* a table of more than 500 records was saved, in several chunks with a
\* last one that is shorter
C16_Witness ==
    /\ s_result = "ok"
    /\ s_pc = "idle"
    /\ Len(SessionDf.rows) > 500
    /\ Len(SessionDf.rows) % 100 # 0
    /\ seq_uploads \in DOMAIN dados
    /\ Len(dados[seq_uploads]) = Len(SessionDf.rows)

----------------------------------------------------------------------------
(* C17: two clicks to delete *)

\* C17: a click on the delete button calls excluir_upload_n1(X) only when the
\* pending id, recorded by an earlier click, is X; a click with another or no
\* pending id deletes nothing and records X as pending; a deletion that
\* succeeds removes X alone and clears the pending id; nothing but a click
\* changes the pending id, and this session deletes by no other way.
C17_TwoClicks ==
    [][ /\ click'.n # click.n =>
              /\ click'.called <=> confirm_delete_n1 = click'.id
              /\ click'.called => (click'.id \in clicked /\ click.n >= 1)
              /\ ~click'.called =>
                    /\ confirm_delete_n1' = click'.id
                    /\ uploads' = uploads /\ dados' = dados
              /\ (click'.called /\ click'.ok) =>
                    /\ confirm_delete_n1' = 0
                    /\ ListedIds(uploads') = ListedIds(uploads) \ {click'.id}
                    /\ click'.id \notin DOMAIN dados'
              /\ (click'.called /\ ~click'.ok) =>
                    /\ confirm_delete_n1' = confirm_delete_n1
                    /\ uploads' = uploads /\ dados' = dados
        /\ click'.n = click.n =>
              /\ confirm_delete_n1' = confirm_delete_n1
              /\ (ListedIds(uploads) \ ListedIds(uploads') # {}) =>
                    last'.op = "excluir"
        /\ confirm_delete_n1' # 0 => confirm_delete_n1' \in clicked' ]_vars

\* a batch was deleted by the second click on it, after a click on another
\* batch that stays stored and pending
C17_Witness ==
    /\ click.called
    /\ click.ok
    /\ click.n >= 3
    /\ Len(uploads) > 0
    /\ clicked \cap ListedIds(uploads) # {}

====
